---- MODULE Spec2Model ----
(***************************************************************************)
(* pyglet_gui/theme.py: the scoped, path-addressable dictionary            *)
(* (ScopedDict), the Theme that turns image entries into texture           *)
(* templates, and the graphic elements generated from those templates.     *)
(*                                                                         *)
(* Python objects live in heaps (sequences indexed by object identity):    *)
(*   heap   ScopedDict / Theme objects   [parent, root, items]             *)
(*   texs   pyglet texture objects       [src, region, width, height, ...] *)
(*   tmpls  graphic element templates                                      *)
(*   el     a graphic element, batch: the vertex lists of the draw batch   *)
(* A Python value is a record [t, v]: t its kind, v an integer (the int    *)
(* itself, or the identity of the object / the index of the literal).      *)
(* An operation that raises yields a value whose kind is the exception.    *)
(***************************************************************************)
EXTENDS Integers, Sequences, FiniteSets, TLC

VARIABLES
    heap,       \* the ScopedDict objects alive
    res,        \* what the last call handed back, until the caller has taken it
    theme,      \* the Theme object (0: none constructed)
    textures,   \* theme._textures: filename -> texture object
    texs,       \* the texture objects
    tmpls,      \* the template objects
    loads,      \* filename -> calls of theme.loader.texture(filename)
    el,         \* the graphic element generated from a template
    batch,      \* the vertex lists the draw batch has issued
    eres        \* the last element call and its outcome

vars == <<heap, res, theme, textures, texs, tmpls, loads, el, batch, eres>>

themeVars == <<theme, textures, texs, tmpls, loads>>
elemVars == <<el, batch, eres>>

---------------------------------------------------------------------------
(* Bounds of the model *)

\* Most ScopedDict objects alive at a time.
MaxStores == 3

\* Most template objects a Theme creates.
MaxTemplates == 4

\* Largest width and height an element is resized to.
MaxSize == 4

\* Most vertex lists the draw batch issues.
MaxAllocs == 2

---------------------------------------------------------------------------
(* Python values *)

Num(n) == [t |-> "int", v |-> n]
Str(i) == [t |-> "str", v |-> i]
List(i) == [t |-> "list", v |-> i]
Dict(i) == [t |-> "dict", v |-> i]
Ref(i) == [t |-> "ref", v |-> i]
Tmpl(i) == [t |-> "tmpl", v |-> i]
None == [t |-> "None", v |-> 0]
Raise(e) == [t |-> e, v |-> 0]

Exceptions == {"KeyError", "AttributeError", "TypeError", "IndexError", "AssertionError"}

IsErr(val) == val.t \in Exceptions

\* isinstance(v, dict): a plain dict literal or a ScopedDict object.
IsDict(val) == val.t \in {"dict", "ref"}

\* The keys of the model, in the order used to walk a ScopedDict's items.
KeyOrder == <<"a", "b", "k", "image", "image_up", "source", "region", "frame", "padding">>

\* Filenames (1: "a.png", 2: "b.png") and the size of the image in each.
Files == {1, 2}
FileW == <<6, 4>>
FileH == <<6, 5>>

\* The list literals: [x, y, width, height] of a region or a frame,
\* [left, right, top, bottom] of a padding.
Lists ==
    << <<0, 0, 0, 0>>,
       <<0, 0, 6, 6>>,
       <<1, 1, 4, 4>>,
       <<1, 1, 3, 3>>,
       <<1, 2, 1, 2>> >>

\* The dict literals handed to the program: each an ordered sequence of
\* <<key, value>> pairs (Python dicts keep insertion order); a nested
\* literal is named by its index.
Dicts ==
    << <<>>,                                                        \* 1  {}
       << <<"k", Num(1)>> >>,                                       \* 2  {k: 1}
       << <<"a", Dict(1)>> >>,                                      \* 3  {a: {}}
       << <<"a", Dict(2)>>, <<"k", Num(1)>> >>,                     \* 4  {a: {k: 1}, k: 1}
       << <<"b", Dict(3)>> >>,                                      \* 5  {b: {a: {}}}
       << <<"a", Ref(1)>> >>,                                       \* 6  {a: <store 1>}
       \* image specifications
       << <<"source", Str(1)>> >>,                                  \* 7
       << <<"source", Str(1)>>, <<"region", List(3)>> >>,           \* 8
       << <<"source", Str(1)>>, <<"region", List(2)>> >>,           \* 9
       << <<"source", Str(1)>>, <<"frame", List(4)>>,
          <<"padding", List(5)>> >>,                                \* 10
       << <<"source", Str(2)>>, <<"region", List(3)>>,
          <<"frame", List(4)>> >>,                                  \* 11
       << <<"region", List(3)>> >>,                                 \* 12 no source
       \* theme definitions
       << <<"image", Str(1)>> >>,                                   \* 13
       << <<"image", Dict(8)>>, <<"image_up", Dict(8)>> >>,         \* 14
       << <<"image", Dict(7)>>, <<"a", Dict(16)>> >>,               \* 15
       << <<"image_up", Dict(7)>>, <<"k", Num(1)>> >>,              \* 16
       << <<"k", Num(2)>>, <<"a", Dict(18)>> >>,                    \* 17
       << <<"image", Dict(10)>>, <<"k", Num(1)>> >>,                \* 18
       << <<"image", Dict(9)>>, <<"image_up", Dict(11)>> >>,        \* 19
       << <<"a", Dict(13)>>, <<"k", Num(1)>> >>,                    \* 20
       << <<"image", Dict(12)>>, <<"a", Dict(2)>> >>,               \* 21
       << <<"image_up", Str(2)>>, <<"a", Dict(2)>> >>               \* 22
    >>


\* The theme definitions Theme(...) and Theme.update(...) draw from.
ThemeDicts == {2, 4, 13, 14, 15, 16, 17, 18, 19, 20, 21, 22}

\* Those a Theme is built from beside other ScopedDict objects.
TreeThemes == {17, 20}

\* k.startswith('image'), over the keys of the model
StartsWithImage(k) == k \in {"image", "image_up"}

RECURSIVE RefsIn(_)
\* The stores a literal mentions, at any depth.
RefsIn(pairs) ==
    IF pairs = <<>> THEN {}
    ELSE LET val == Head(pairs)[2]
         IN (IF val.t = "ref" THEN {val.v}
             ELSE IF val.t = "dict" THEN RefsIn(Dicts[val.v])
             ELSE {}) \cup RefsIn(Tail(pairs))

---------------------------------------------------------------------------
(* ScopedDict *)

EmptyItems == [x \in {} |-> None]

\* A new ScopedDict object. root: the caller has bound the object to a name
\* of its own (what a constructor call returned); the others it reaches
\* through a root's entries and parent attributes.
NewObj(parent) == [parent |-> parent, root |-> FALSE, items |-> EmptyItems]

\* dict.__setitem__(self, key, value)
Put(h, self, key, val) ==
    LET v0 == val
    IN [h EXCEPT ![self].items =
           [x \in (DOMAIN @) \cup {key} |-> IF x = key THEN v0 ELSE @[x]]]

RECURSIVE PairsFrom(_, _)
PairsFrom(items, ks) ==
    LET it == items
        rest == Tail(ks)
    IN IF ks = <<>> THEN <<>>
       ELSE (IF ks[1] \in DOMAIN it THEN << <<ks[1], it[ks[1]]>> >> ELSE <<>>)
                \o PairsFrom(it, rest)

\* arg.items() of a dict literal or of a ScopedDict
ItemsOf(h, val) ==
    IF val.t = "dict" THEN Dicts[val.v] ELSE PairsFrom(h[val.v].items, KeyOrder)

RECURSIVE ScopedDictInit(_, _, _), InitLoop(_, _, _), setitem(_, _, _, _)

\* ScopedDict(arg, parent): the new object is Len(h) + 1 of the result.
ScopedDictInit(h, pairs, parent) ==
    LET h0 == h
    IN InitLoop(Append(h0, NewObj(parent)), Len(h0) + 1, pairs)

\* for k, v in arg.items(): self[k] = ScopedDict(v, self) if dict else v
InitLoop(h, self, pairs) ==
    LET h0 == h
        ps == pairs
    IN IF ps = <<>> THEN h0
       ELSE LET k == ps[1][1]
                val == ps[1][2]
                h1 == IF IsDict(val)
                      THEN setitem(ScopedDictInit(h0, ItemsOf(h0, val), self),
                                   self, k, Ref(Len(h0) + 1))
                      ELSE setitem(h0, self, k, val)
                rest == Tail(ps)
            IN InitLoop(h1, self, rest)

\* ScopedDict.__setitem__, a ScopedDict value kept as the object it is
setitem_by_reference(h, self, key, val) ==
    LET h0 == h
    IN IF val.t = "dict"
       THEN Put(ScopedDictInit(h0, ItemsOf(h0, val), self), self, key, Ref(Len(h0) + 1))
       ELSE Put(h0, self, key, val)

\* ScopedDict.__setitem__
setitem(h, self, key, val) ==
    LET h0 == h
    IN IF IsDict(val)
       THEN Put(ScopedDictInit(h0, ItemsOf(h0, val), self), self, key, Ref(Len(h0) + 1))
       ELSE Put(h0, self, key, val)

RECURSIVE getitem_key(_, _, _)
\* ScopedDict.__getitem__ on a single key
getitem_key(h, self, key) ==
    IF key \in DOMAIN h[self].items THEN h[self].items[key]
    ELSE IF h[self].parent # 0 THEN getitem_key(h, h[self].parent, key)
    ELSE Raise("KeyError")

\* obj.__getitem__(path) on whatever the first segment resolved to that is
\* no ScopedDict
ForeignGetitem(val) ==
    IF IsErr(val) THEN val
    ELSE IF val.t \in {"str", "list", "dict"} THEN Raise("TypeError")
    ELSE Raise("AttributeError")

\* obj.get / obj.get_path / obj.set_path on a value that has no such method
ForeignMethod(val) ==
    IF IsErr(val) THEN val
    ELSE IF val.t = "dict" THEN Raise("TypeError")
    ELSE Raise("AttributeError")

RECURSIVE getitem(_, _, _)
\* ScopedDict.__getitem__ on a list or tuple
getitem(h, self, path) ==
    IF Len(path) > 1
    THEN LET first == getitem_key(h, self, path[1])
         IN IF first.t = "ref" THEN getitem(h, first.v, Tail(path))
            ELSE ForeignGetitem(first)
    ELSE IF Len(path) = 1 THEN getitem_key(h, self, path[1])
    ELSE Ref(self)

\* bool(self.parent): None and an empty dict are both false
Truthy(h, p) == p # 0 /\ DOMAIN h[p].items # {}

RECURSIVE get_key(_, _, _, _)
\* ScopedDict.get on a single key
get_key(h, self, key, default) ==
    IF key \in DOMAIN h[self].items THEN h[self].items[key]
    ELSE IF Truthy(h, h[self].parent) THEN get_key(h, h[self].parent, key, default)
    ELSE default

RECURSIVE get(_, _, _, _)
\* ScopedDict.get on a list or tuple
get(h, self, path, default) ==
    IF Len(path) > 1
    THEN LET first == getitem_key(h, self, path[1])
         IN IF first.t = "ref" THEN get(h, first.v, Tail(path), default)
            ELSE ForeignMethod(first)
    ELSE IF Len(path) = 1 THEN get_key(h, self, path[1], default)
    ELSE Raise("KeyError")

RECURSIVE get_path(_, _, _, _)
\* ScopedDict.get_path
get_path(h, self, path, default) ==
    IF Len(path) = 1 THEN get_key(h, self, path[1], default)
    ELSE IF Len(path) = 0 THEN Raise("IndexError")
    ELSE LET first == getitem_key(h, self, path[1])
         IN IF first.t = "ref" THEN get_path(h, first.v, Tail(path), default)
            ELSE ForeignMethod(first)

RECURSIVE set_path(_, _, _, _)
\* ScopedDict.set_path: the heap afterwards and what the call returned
set_path(h, self, path, val) ==
    LET p == path
        rest == Tail(p)
    IN IF Len(p) = 1 THEN [h |-> setitem(h, self, p[1], val), out |-> None]
       ELSE IF Len(p) = 0 THEN [h |-> h, out |-> Raise("IndexError")]
       ELSE LET first == getitem_key(h, self, p[1])
            IN IF first.t = "ref" THEN set_path(h, first.v, rest, val)
               ELSE [h |-> h, out |-> ForeignMethod(first)]

---------------------------------------------------------------------------
(* Textures and templates *)

\* What the Theme methods work on: the objects, theme._textures (cache),
\* the loader's calls, and what the call raised (None: nothing).
World(h, tx, cache, tp, ld) ==
    [heap |-> h, texs |-> tx, cache |-> cache, tmpls |-> tp, loads |-> ld, out |-> None]

NoLoads == [f \in Files |-> 0]

\* loader.texture(filename): decodes the file into a new texture object;
\* line 306 names its source.
LoadedTexture(f) ==
    [src |-> f, region |-> <<>>, width |-> FileW[f], height |-> FileH[f], of |-> 0]

\* texture.get_region(x, y, width, height).get_texture(): a new texture
\* object of that size, a view of `tex`.
RegionTexture(tex, r) ==
    [src |-> 0, region |-> <<>>, width |-> r[3], height |-> r[4], of |-> tex]

\* Theme._get_texture, had it no cache
get_texture_always_loads(w, f) ==
    [w |-> [w EXCEPT !.texs = Append(@, LoadedTexture(f)),
                     !.loads[f] = @ + 1,
                     !.cache = [x \in (DOMAIN @) \cup {f} |->
                                   IF x = f THEN Len(w.texs) + 1 ELSE @[x]]],
     tex |-> Len(w.texs) + 1]

\* Theme._get_texture: the world afterwards and the texture returned
get_texture(w, f) ==
    IF f \notin DOMAIN w.cache
    THEN [w |-> [w EXCEPT !.texs = Append(@, LoadedTexture(f)),
                          !.loads[f] = @ + 1,
                          !.cache = [x \in (DOMAIN @) \cup {f} |->
                                        IF x = f THEN Len(w.texs) + 1 ELSE @[x]]],
          tex |-> Len(w.texs) + 1]
    ELSE [w |-> w, tex |-> w.cache[f]]

\* Theme._get_texture_region
get_texture_region(w, f, r) ==
    LET g == get_texture(w, f)
        id == Len(g.w.texs) + 1
        retval == [RegionTexture(g.tex, r) EXCEPT !.src = g.w.texs[g.tex].src,
                                                  !.region = r]
    IN [w |-> [g.w EXCEPT !.texs = Append(@, retval)], tex |-> id]

\* TextureGraphicElementTemplate(texture, width=None, height=None)
TextureTemplate(tx, tex) ==
    [kind |-> "texture", texture |-> tex,
     width |-> tx[tex].width, height |-> tx[tex].height,
     frame_texture |-> 0, margins |-> <<0, 0, 0, 0>>, padding |-> None]

\* FrameTextureGraphicElementTemplate(texture, frame, padding): the texture
\* objects afterwards (the frame's region is a new one) and the template
FrameTemplate(tx, tex, frame, padding) ==
    [texs |-> Append(tx, RegionTexture(tex, frame)),
     tmpl |-> [kind |-> "frame", texture |-> tex,
               width |-> tx[tex].width, height |-> tx[tex].height,
               frame_texture |-> Len(tx) + 1,
               margins |-> <<frame[1], tx[tex].width - frame[3] - frame[1],
                             tx[tex].height - frame[4] - frame[2], frame[2]>>,
               padding |-> padding]]

---------------------------------------------------------------------------
(* Theme *)

LitKeys(pairs) == {pairs[i][1] : i \in 1..Len(pairs)}
LitGet(pairs, key) == pairs[CHOOSE i \in 1..Len(pairs) : pairs[i][1] = key][2]

\* key in v
Contains(h, val, key) ==
    IF val.t = "dict" THEN key \in LitKeys(Dicts[val.v])
    ELSE key \in DOMAIN h[val.v].items

\* v[key]
Subscript(h, val, key) ==
    IF val.t = "dict"
    THEN IF key \in LitKeys(Dicts[val.v]) THEN LitGet(Dicts[val.v], key)
         ELSE Raise("KeyError")
    ELSE getitem_key(h, val.v, key)

\* v.get(key, default)
GetOr(h, val, key, default) ==
    IF val.t = "dict"
    THEN IF key \in LitKeys(Dicts[val.v]) THEN LitGet(Dicts[val.v], key)
         ELSE default
    ELSE get_key(h, val.v, key, default)

\* The image specification v (a dict) under key k of target: lines 332-349
ImageFromDict(w, target, k, val) ==
    LET source == Subscript(w.heap, val, "source")
        region == Subscript(w.heap, val, "region")
        frame == Subscript(w.heap, val, "frame")
        padding == GetOr(w.heap, val, "padding", List(1))
    IN IF IsErr(source) THEN [w EXCEPT !.out = source]
       ELSE IF Contains(w.heap, val, "region") /\ region.t # "list"
       THEN [w EXCEPT !.out = Raise("TypeError")]
       ELSE IF source.t # "str" THEN [w EXCEPT !.out = Raise("TypeError")]
       ELSE LET g == IF Contains(w.heap, val, "region")
                     THEN get_texture_region(w, source.v, Lists[region.v])
                     ELSE get_texture(w, source.v)
            IN IF Contains(w.heap, val, "frame")
               THEN IF frame.t # "list"
                    THEN [g.w EXCEPT !.out = Raise("TypeError")]
                    ELSE LET ft == FrameTemplate(g.w.texs, g.tex, Lists[frame.v], padding)
                         IN [g.w EXCEPT
                               !.texs = ft.texs,
                               !.tmpls = Append(@, ft.tmpl),
                               !.heap = setitem(@, target, k, Tmpl(Len(g.w.tmpls) + 1))]
               ELSE [g.w EXCEPT
                       !.tmpls = Append(@, TextureTemplate(g.w.texs, g.tex)),
                       !.heap = setitem(@, target, k, Tmpl(Len(g.w.tmpls) + 1))]

\* The image given as a plain value under key k: line 351. The call
\* TextureGraphicElementTemplate(self, self._get_texture(v)) fetches the
\* texture, then binds texture=self (the Theme) and width=<the texture>;
\* `height or texture.height` reads Theme.height, which no Theme has.
ImageFromValue(w, target, k, val) ==
    IF val.t # "str" THEN [w EXCEPT !.out = Raise("TypeError")]
    ELSE [get_texture(w, val.v).w EXCEPT !.out = Raise("AttributeError")]

RECURSIVE update_with_images(_, _, _)
\* Theme._update_with_images(target, input_dict)
update_with_images(w, target, pairs) ==
    LET w0 == w
        ps == pairs
    IN IF ps = <<>> \/ w0.out # None THEN w0
       ELSE LET k == ps[1][1]
                val == ps[1][2]
                w1 == IF StartsWithImage(k)
                      THEN IF IsDict(val) THEN ImageFromDict(w0, target, k, val)
                           ELSE ImageFromValue(w0, target, k, val)
                      ELSE IF IsDict(val)
                      THEN LET temp == Len(w0.heap) + 1
                               items == ItemsOf(w0.heap, val)
                               wt == update_with_images(
                                         [w0 EXCEPT !.heap = Append(@, NewObj(target))],
                                         temp, items)
                           IN IF wt.out # None THEN wt
                              ELSE [wt EXCEPT !.heap = setitem(@, target, k, Ref(temp))]
                      ELSE [w0 EXCEPT !.heap = setitem(@, target, k, val)]
                rest == Tail(ps)
            IN update_with_images(w1, target, rest)

\* Theme(dictionary, resources_path): the Theme is object Len(h) + 1
ThemeInit(h, pairs) ==
    update_with_images(
        World(ScopedDictInit(h, pairs, 0), <<>>, EmptyItems, <<>>, NoLoads),
        Len(h) + 1, pairs)

RECURSIVE dict_update(_, _, _)
\* dict.update(self, E): the entries go in as they are
dict_update(h, self, pairs) ==
    IF pairs = <<>> THEN h
    ELSE dict_update(Put(h, self, Head(pairs)[1], Head(pairs)[2]), self, Tail(pairs))

\* Theme.update(E)
ThemeUpdateOp(w, self, pairs) ==
    update_with_images([w EXCEPT !.heap = dict_update(@, self, pairs)], self, pairs)

---------------------------------------------------------------------------
(* Graphic elements *)

\* No element generated yet.
NoElement ==
    [kind |-> "none", x |-> 0, y |-> 0, width |-> 0, height |-> 0,
     margins |-> <<0, 0, 0, 0>>, vertex_list |-> 0, group |-> 0]

\* The last element call: whether the element held a vertex list when it
\* was made, and what it raised; "none" once the caller has moved on.
NoCall == [op |-> "none", live |-> FALSE, out |-> None]

\* TextureGraphicElement._get_vertices. The coordinates are Python ints,
\* which int() leaves as they are.
TextureVertices(e) ==
    LET x1 == e.x
        y1 == e.y
        x2 == x1 + e.width
        y2 == y1 + e.height
    IN <<x1, y1, x2, y1, x2, y2, x1, y2>>

\* FrameTextureGraphicElement._get_vertices, the right column placed by
\* the left margin
FrameVerticesLeftForRight(e) ==
    LET left == e.margins[1]
        right == e.margins[2]
        top == e.margins[3]
        bottom == e.margins[4]
        x1 == e.x
        y1 == e.y
        x2 == x1 + left
        y2 == y1 + bottom
        x3 == x1 + e.width - left
        y3 == y1 + e.height - top
        x4 == x1 + e.width
        y4 == y1 + e.height
    IN <<x1, y1, x2, y1, x2, y2, x1, y2,
         x2, y1, x3, y1, x3, y2, x2, y2,
         x3, y1, x4, y1, x4, y2, x3, y2,
         x1, y2, x2, y2, x2, y3, x1, y3,
         x2, y2, x3, y2, x3, y3, x2, y3,
         x3, y2, x4, y2, x4, y3, x3, y3,
         x1, y3, x2, y3, x2, y4, x1, y4,
         x2, y3, x3, y3, x3, y4, x2, y4,
         x3, y3, x4, y3, x4, y4, x3, y4>>

\* FrameTextureGraphicElement._get_vertices
FrameVertices(e) ==
    LET left == e.margins[1]
        right == e.margins[2]
        top == e.margins[3]
        bottom == e.margins[4]
        x1 == e.x
        y1 == e.y
        x2 == x1 + left
        y2 == y1 + bottom
        x3 == x1 + e.width - right
        y3 == y1 + e.height - top
        x4 == x1 + e.width
        y4 == y1 + e.height
    IN <<x1, y1, x2, y1, x2, y2, x1, y2,      \* bottom left
         x2, y1, x3, y1, x3, y2, x2, y2,      \* bottom
         x3, y1, x4, y1, x4, y2, x3, y2,      \* bottom right
         x1, y2, x2, y2, x2, y3, x1, y3,      \* left
         x2, y2, x3, y2, x3, y3, x2, y3,      \* center
         x3, y2, x4, y2, x4, y3, x3, y3,      \* right
         x1, y3, x2, y3, x2, y4, x1, y4,      \* top left
         x2, y3, x3, y3, x3, y4, x2, y4,      \* top
         x3, y3, x4, y3, x4, y4, x3, y4>>     \* top right

\* self._get_vertices()
get_vertices(e) ==
    IF e.kind = "frame" THEN FrameVertices(e) ELSE TextureVertices(e)

\* What an element call works on and leaves: the element, the batch's
\* vertex lists, and what the call raised.
Outcome(e, b, out) == [el |-> e, batch |-> b, out |-> out]

\* _load, without its assertion
load_unguarded(e, b) ==
    Outcome([e EXCEPT !.vertex_list = Len(b) + 1],
            Append(b, [count |-> Len(get_vertices(e)) \div 2,
                       vertices |-> get_vertices(e), deleted |-> FALSE]),
            None)

\* TextureGraphicElement._load / FrameTextureGraphicElement._load
load(e, b) ==
    IF e.vertex_list # 0 THEN Outcome(e, b, Raise("AssertionError"))
    ELSE Outcome([e EXCEPT !.vertex_list = Len(b) + 1],
                 Append(b, [count |-> Len(get_vertices(e)) \div 2,
                            vertices |-> get_vertices(e), deleted |-> FALSE]),
                 None)

\* GraphicElement.unload, had it a guard like update's
unload_guarded(e, b) ==
    IF e.vertex_list = 0 THEN Outcome(e, b, None)
    ELSE Outcome([e EXCEPT !.vertex_list = 0, !.group = 0],
                 [b EXCEPT ![e.vertex_list] = [@ EXCEPT !.deleted = TRUE,
                                                        !.vertices = <<>>]],
                 None)

\* GraphicElement.unload: None has no delete()
unload(e, b) ==
    IF e.vertex_list = 0 THEN Outcome(e, b, Raise("AttributeError"))
    ELSE Outcome([e EXCEPT !.vertex_list = 0, !.group = 0],
                 [b EXCEPT ![e.vertex_list] = [@ EXCEPT !.deleted = TRUE,
                                                        !.vertices = <<>>]],
                 None)

\* GraphicElement.update
update(e, b, x, y, width, height) ==
    LET e1 == [e EXCEPT !.x = x, !.y = y, !.width = width, !.height = height]
    IN IF e1.vertex_list # 0
       THEN Outcome(e1, [b EXCEPT ![e1.vertex_list].vertices = get_vertices(e1)], None)
       ELSE Outcome(e1, b, None)

\* template.generate(color, batch, group): GraphicElement.__init__ places
\* the element at the origin with the texture's size, and loads it.
generate(tx, tmpl, b) ==
    load([NoElement EXCEPT
            !.kind = tmpl.kind,
            !.width = tx[tmpl.texture].width,
            !.height = tx[tmpl.texture].height,
            !.margins = tmpl.margins,
            !.group = 1],
         b)

---------------------------------------------------------------------------
(* The ScopedDict and Theme calls *)

\* Keys and paths the lookups and writes are tried with.
PathKeys == {"a", "k"}
Paths ==
    {<<>>} \cup {<<x>> : x \in PathKeys}
           \cup {<<x, y>> : x \in PathKeys, y \in PathKeys}
           \cup {<<x, y, z>> : x \in PathKeys, y \in PathKeys, z \in PathKeys}

Defaults == {None, Num(0)}

Stores == 1..Len(heap)

\* What the writes are tried with where the lookups are studied:
\* constructor arguments, assignments <<key, value>> and set_path calls
\* <<path, value>>, of an int, a dict literal, a ScopedDict object.
StoreArgs == {Dict(1), Dict(2), Dict(3)} \cup {Ref(i) : i \in Stores}
StoreItems ==
    {<<"k", Num(1)>>, <<"a", Num(1)>>, <<"a", Dict(3)>>, <<"a", Dict(6)>>}
        \cup {<<"a", Ref(i)>> : i \in Stores}
StorePaths ==
    {<<<<"a", "k">>, Num(1)>>, <<<<"a", "a">>, Dict(1)>>}
        \cup {<<<<"a", "a">>, Ref(i)>> : i \in Stores}

\* What they are tried with where the shape of the tree is studied: a
\* literal that is empty, nested, or holds a ScopedDict; a ScopedDict.
TreeArgs == {Dict(1), Dict(3)} \cup {Ref(i) : i \in Stores}
TreeItems ==
    {<<"a", Num(1)>>, <<"a", Dict(3)>>, <<"a", Dict(6)>>}
        \cup {<<"a", Ref(i)>> : i \in Stores}
TreePaths ==
    {<<<<"a", "a">>, Dict(1)>>} \cup {<<<<"a", "a">>, Ref(i)>> : i \in Stores}

ValOK(val) ==
    val.t = "dict" => RefsIn(Dicts[val.v]) \subseteq Stores

NoRes ==
    [op |-> "none", s |-> 0, form |-> "key", path |-> <<>>, d |-> None,
     val |-> None, out |-> None]

RECURSIVE Reach(_, _)
\* The objects those of R refer to, by an entry or by the parent attribute
Reach(h, R) ==
    LET parents == {h[s].parent : s \in R} \ {0}
        entries == UNION {{h[s].items[k].v : k \in {x \in DOMAIN h[s].items :
                                                      h[s].items[x].t = "ref"}} : s \in R}
        more == R \cup parents \cup entries
    IN IF more = R THEN R ELSE Reach(h, more)

\* The objects alive: a root, or referred to by one alive
Live(h) == Reach(h, {s \in 1..Len(h) : h[s].root})

\* Where object s stands among the objects R
Rank(R, s) == Cardinality({r \in R : r <= s})

\* The objects R alone, in their order; an object's identity is its place
Compact(h, R) ==
    IF R = 1..Len(h) THEN h
    ELSE
    [i \in 1..Cardinality(R) |->
        LET o == h[CHOOSE s \in R : Rank(R, s) = i]
        IN [parent |-> Rank(R, o.parent), root |-> o.root,
            items |-> [k \in DOMAIN o.items |->
                          IF o.items[k].t = "ref" THEN Ref(Rank(R, o.items[k].v))
                          ELSE o.items[k]]]]

Init ==
    /\ heap = <<>>
    /\ res = NoRes
    /\ theme = 0
    /\ textures = EmptyItems
    /\ texs = <<>>
    /\ tmpls = <<>>
    /\ loads = NoLoads
    /\ el = NoElement
    /\ batch = <<>>
    /\ eres = NoCall

\* The heap h becomes the state's, its garbage freed
Commit(h) ==
    LET R == Live(h)
    IN /\ Cardinality(R) <= MaxStores
       /\ heap' = Compact(h, R)

\* h with object s bound to a name of the caller's
Bind(h, s) == [h EXCEPT ![s].root = TRUE]

\* The caller makes one call at a time; a call that hands back something
\* to look at (a lookup's value, what a Theme call raised) leaves it in res
\* until the caller has taken it.
Idle == res.op = "none"

\* ScopedDict(arg, parent)
New(arg, parent) ==
    /\ Idle
    /\ ValOK(arg)
    /\ Commit(Bind(ScopedDictInit(heap, ItemsOf(heap, arg), parent), Len(heap) + 1))
    /\ UNCHANGED <<res, themeVars, elemVars>>

\* store[key] = value
SetItem(s, key, val) ==
    /\ Idle
    /\ ValOK(val)
    /\ Commit(setitem(heap, s, key, val))
    /\ UNCHANGED <<res, themeVars, elemVars>>

\* store.set_path(path, value)
SetPath(s, path, val) ==
    /\ Idle
    /\ ValOK(val)
    /\ Commit(set_path(heap, s, path, val).h)
    /\ UNCHANGED <<res, themeVars, elemVars>>

\* store.get(key, default)
GetKey(s, key, d) ==
    /\ Idle
    /\ res' = [NoRes EXCEPT !.op = "get", !.s = s, !.path = <<key>>, !.d = d,
                            !.out = get_key(heap, s, key, d)]
    /\ UNCHANGED <<heap, themeVars, elemVars>>

\* store.get(path, default)
Get(s, path, d) ==
    /\ Idle
    /\ res' = [NoRes EXCEPT !.op = "get", !.s = s, !.form = "path", !.path = path,
                            !.d = d, !.out = get(heap, s, path, d)]
    /\ UNCHANGED <<heap, themeVars, elemVars>>

\* store.get_path(path, default)
GetPath(s, path, d) ==
    /\ Idle
    /\ res' = [NoRes EXCEPT !.op = "get_path", !.s = s, !.form = "path", !.path = path,
                            !.d = d, !.out = get_path(heap, s, path, d)]
    /\ UNCHANGED <<heap, themeVars, elemVars>>

\* Theme(dictionary, resources_path). A constructor that raises returns no
\* object: what it built is garbage, and the state is as before.
ThemeNew(i) ==
    /\ Idle
    /\ theme = 0
    /\ LET w == ThemeInit(heap, Dicts[i])
       IN /\ res' = [NoRes EXCEPT !.op = "Theme", !.val = Dict(i), !.out = w.out]
          /\ IF w.out = None
             THEN /\ Commit(Bind(w.heap, Len(heap) + 1))
                  /\ theme' = Len(heap) + 1
                  /\ textures' = w.cache
                  /\ texs' = w.texs
                  /\ tmpls' = w.tmpls
                  /\ loads' = w.loads
             ELSE UNCHANGED <<heap, themeVars>>
    /\ UNCHANGED elemVars

\* theme.update(E)
ThemeUpdate(i) ==
    /\ Idle
    /\ theme # 0
    /\ LET w == ThemeUpdateOp(World(heap, texs, textures, tmpls, loads), theme, Dicts[i])
       IN /\ Len(w.tmpls) <= MaxTemplates
          /\ Commit(w.heap)
          /\ textures' = w.cache
          /\ texs' = w.texs
          /\ tmpls' = w.tmpls
          /\ loads' = w.loads
          /\ res' = [NoRes EXCEPT !.op = "update", !.val = Dict(i), !.out = w.out]
    /\ UNCHANGED <<theme, elemVars>>

\* The caller has taken what the call handed back.
Return ==
    /\ ~Idle
    /\ res' = NoRes
    /\ UNCHANGED <<heap, themeVars, elemVars>>

\* ScopedDict objects, written and read
NextStore ==
    \/ \E arg \in StoreArgs, p \in {0} \cup Stores : New(arg, p)
    \/ \E s \in Stores, kv \in StoreItems : SetItem(s, kv[1], kv[2])
    \/ \E s \in Stores, pv \in StorePaths : SetPath(s, pv[1], pv[2])
    \/ \E s \in Stores, key \in PathKeys, d \in Defaults : GetKey(s, key, d)
    \/ \E s \in Stores, path \in Paths, d \in Defaults : Get(s, path, d)
    \/ \E s \in Stores, path \in Paths, d \in Defaults : GetPath(s, path, d)
    \/ Return

SpecStore == Init /\ [][NextStore]_vars

\* ScopedDict objects and a Theme, as trees
NextTree ==
    \/ \E arg \in TreeArgs, p \in {0} \cup Stores : New(arg, p)
    \/ \E s \in Stores, kv \in TreeItems : SetItem(s, kv[1], kv[2])
    \/ \E s \in Stores, pv \in TreePaths : SetPath(s, pv[1], pv[2])
    \/ \E i \in TreeThemes : ThemeNew(i)
    \/ Return

SpecTree == Init /\ [][NextTree]_vars

\* A Theme, constructed and updated
NextTheme ==
    \/ \E i \in ThemeDicts : ThemeNew(i)
    \/ \E i \in ThemeDicts : ThemeUpdate(i)
    \/ Return

SpecTheme == Init /\ [][NextTheme]_vars

---------------------------------------------------------------------------
(* Lookups *)

\* C1: S.get(K, d) is S's own value where S holds K; otherwise, where S
\* has a parent P, exactly P.get(K, d); and d only where S has no parent.
C1_GetDelegatesToParent ==
    (res.op = "get" /\ res.form = "key") =>
        LET S == heap[res.s]
            K == res.path[1]
        IN IF K \in DOMAIN S.items THEN res.out = S.items[K]
           ELSE IF S.parent # 0 THEN res.out = get_key(heap, S.parent, K, res.d)
           ELSE res.out = res.d

\* C2: S.get(p, d) and S.get_path(p, d) on a non-empty path p never raise
\* KeyError, whichever of p's segments cannot be resolved.
C2_DefaultNeverKeyError ==
    (res.op \in {"get", "get_path"} /\ Len(res.path) >= 1) =>
        res.out # Raise("KeyError")

\* The stores nested in s, s among them
Subtree(h, s) ==
    LET RECURSIVE Under(_)
        Under(q) == q = s \/ (h[q].parent # 0 /\ Under(h[q].parent))
    IN {q \in 1..Len(h) : Under(q)}

\* C3: S.set_path(p, v) leaves every store outside S's own subtree as it
\* was: S's ancestors, and what is nested in them beside S. (SetPath makes
\* the heap set_path(heap, s, p, v).h, its garbage freed.)
C3_SetPathStaysInSubtree ==
    \A s \in Stores, pv \in StorePaths :
        ValOK(pv[2]) =>
            \A q \in Stores \ Subtree(heap, s) :
                set_path(heap, s, pv[1], pv[2]).h[q] = heap[q]

\* value.get(path, d), value what a lookup returned
GetOn(h, val, path, d) ==
    IF val.t = "ref" THEN get(h, val.v, path, d)
    ELSE IF val = None THEN Raise("AttributeError")
    ELSE ForeignMethod(val)

\* value.get(key), value what a lookup returned
GetKeyOn(h, val, key) ==
    IF val.t = "ref" THEN get_key(h, val.v, key, None)
    ELSE IF val = None THEN Raise("AttributeError")
    ELSE ForeignMethod(val)

\* Two outcomes are the same: the same value, or a failure both
SameOutcome(u, v) == u = v \/ (IsErr(u) /\ IsErr(v))

\* C4: S.get([a, b, c], d) has the outcome of S.get(a).get([b, c], d) and
\* of S.get(a).get(b).get([c], d).
C4_PathGetAssociative ==
    (res.op = "get" /\ res.form = "path" /\ Len(res.path) = 3) =>
        LET first == get_key(heap, res.s, res.path[1], None)
            second == GetKeyOn(heap, first, res.path[2])
        IN /\ SameOutcome(res.out, GetOn(heap, first, Tail(res.path), res.d))
           /\ SameOutcome(res.out, GetOn(heap, second, <<res.path[3]>>, res.d))

---------------------------------------------------------------------------
(* The tree of stores *)

\* The entries of store s that are ScopedDict objects
Children(s) ==
    {heap[s].items[k].v : k \in {x \in DOMAIN heap[s].items : heap[s].items[x].t = "ref"}}

\* The stores above s
Ancestors(s) == {q \in Stores : q # s /\ s \in Subtree(heap, q)}

\* C10: every mapping held under a key of a store S is a ScopedDict whose
\* parent is S; no store is its own ancestor, and none is the child of two.
C10_ChildrenBelongToHolder ==
    /\ \A s \in Stores : \A k \in DOMAIN heap[s].items :
          /\ heap[s].items[k].t # "dict"
          /\ heap[s].items[k].t = "ref" => heap[heap[s].items[k].v].parent = s
    /\ \A s \in Stores : heap[s].parent \in {0} \cup (Stores \ {s})
    /\ \A s \in Stores : s \notin Ancestors(s) /\ (heap[s].parent # 0 => Ancestors(s) # {})
    /\ \A s1 \in Stores, s2 \in Stores : s1 # s2 => Children(s1) \cap Children(s2) = {}

\* A store nested in a store nested in a store, with as many stores alive
\* as the bound lets be
C10_Witness ==
    /\ \E s \in Stores : \E c \in Children(s) : Children(c) # {}
    /\ Len(heap) = MaxStores

---------------------------------------------------------------------------
(* Textures *)

\* C5: specifications of one source and no region get the one texture
\* object the loader made for that source, which it is asked for once;
\* every specification with a region gets a texture object of its own,
\* a view of that one, whether or not the region was asked for before.
C5_WholeTexturesCached ==
    /\ \A f \in Files : loads[f] <= 1
    /\ \A f \in DOMAIN textures : texs[textures[f]] = LoadedTexture(f) /\ loads[f] = 1
    /\ \A i \in 1..Len(tmpls) :
          LET tex == texs[tmpls[i].texture]
          IN IF tex.region = <<>>
             THEN tmpls[i].texture = textures[tex.src]
             ELSE /\ tex.of = textures[tex.src]
                  /\ \A j \in 1..Len(tmpls) : j # i => tmpls[j].texture # tmpls[i].texture

\* One Theme has made two templates of the whole texture of one source,
\* and two of one region of one source
C5_Witness ==
    /\ \E i \in 1..Len(tmpls), j \in 1..Len(tmpls) :
          /\ i # j
          /\ tmpls[i].texture = tmpls[j].texture
          /\ texs[tmpls[i].texture].region = <<>>
          /\ loads[texs[tmpls[i].texture].src] = 1
    /\ \E i \in 1..Len(tmpls), j \in 1..Len(tmpls) :
          /\ i # j
          /\ texs[tmpls[i].texture].region # <<>>
          /\ texs[tmpls[i].texture].region = texs[tmpls[j].texture].region
          /\ texs[tmpls[i].texture].src = texs[tmpls[j].texture].src

\* C5 as stated: the same source and region give the same texture object,
\* the same source and no region the same whole texture, loaded once, and
\* differing regions distinct objects.
C5_RegionsCached ==
    /\ \A f \in Files : loads[f] <= 1
    /\ \A i \in 1..Len(tmpls), j \in 1..Len(tmpls) :
          LET ti == texs[tmpls[i].texture]
              tj == texs[tmpls[j].texture]
          IN ti.src = tj.src =>
                (ti.region = tj.region) = (tmpls[i].texture = tmpls[j].texture)

RECURSIVE NamesImageFile(_)
\* The dictionary has, at some depth, an image key whose value is a string
NamesImageFile(pairs) ==
    \E n \in 1..Len(pairs) :
        \/ StartsWithImage(pairs[n][1]) /\ pairs[n][2].t = "str"
        \/ /\ ~StartsWithImage(pairs[n][1])
           /\ pairs[n][2].t = "dict"
           /\ NamesImageFile(Dicts[pairs[n][2].v])

\* C6: a Theme constructed or updated with a dictionary that gives an
\* image key a filename loads without failure.
C6_FilenameImageLoads ==
    (res.op \in {"Theme", "update"} /\ NamesImageFile(Dicts[res.val.v])) =>
        res.out = None

---------------------------------------------------------------------------
(* The element calls *)

Coords == {-1, 0, 2}
Sizes == 0..MaxSize

\* The themes whose templates the elements are generated from.
ElementThemes == {18, 19}

InitElement ==
    /\ \E i \in ElementThemes :
          LET w == ThemeInit(<<>>, Dicts[i])
          IN /\ heap = Compact(Bind(w.heap, 1), Live(Bind(w.heap, 1)))
             /\ theme = 1
             /\ textures = w.cache
             /\ texs = w.texs
             /\ tmpls = w.tmpls
             /\ loads = w.loads
    /\ res = NoRes
    /\ el = NoElement
    /\ batch = <<>>
    /\ eres = NoCall

Done(op, r) ==
    /\ el' = r.el
    /\ batch' = r.batch
    /\ eres' = [op |-> op, live |-> el.vertex_list # 0, out |-> r.out]
    /\ UNCHANGED <<heap, res, themeVars>>

\* element = theme[key].generate(color, batch, group)
Generate(i) ==
    /\ eres.op = "none"
    /\ el.kind = "none"
    /\ Done("generate", generate(texs, tmpls[i], batch))

\* element.update(x, y, width, height)
Update(x, y, width, height) ==
    /\ eres.op = "none"
    /\ el.kind # "none"
    /\ Done("update", update(el, batch, x, y, width, height))

\* element._load()
Load ==
    /\ eres.op = "none"
    /\ el.kind # "none"
    /\ Len(batch) < MaxAllocs \/ el.vertex_list # 0
    /\ Done("_load", load(el, batch))

\* element.unload()
Unload ==
    /\ eres.op = "none"
    /\ el.kind # "none"
    /\ Done("unload", unload(el, batch))

\* The caller moves on.
Proceed ==
    /\ eres.op # "none"
    /\ eres' = NoCall
    /\ UNCHANGED <<heap, res, themeVars, el, batch>>

NextElement ==
    \/ \E i \in 1..Len(tmpls) : Generate(i)
    \/ \E x \in Coords, y \in Coords, width \in Sizes, height \in Sizes :
          Update(x, y, width, height)
    \/ Load
    \/ Unload
    \/ Proceed

SpecElement == InitElement /\ [][NextElement]_vars

---------------------------------------------------------------------------
(* Elements *)

\* The element's vertex list in the batch
Vertices == batch[el.vertex_list].vertices

\* Quad i of the vertex list v, by its first and third corner
QuadAt(v, i) ==
    [x0 |-> v[8 * i + 1], y0 |-> v[8 * i + 2], x1 |-> v[8 * i + 5], y1 |-> v[8 * i + 6]]

\* Quad i is an upright rectangle, its corners counter-clockwise
IsRect(v, i) ==
    LET q == QuadAt(v, i)
    IN /\ v[8 * i + 3] = q.x1 /\ v[8 * i + 4] = q.y0
       /\ v[8 * i + 7] = q.x0 /\ v[8 * i + 8] = q.y1
       /\ q.x0 <= q.x1 /\ q.y0 <= q.y1

\* The quads of v that cover the unit cell at (px, py)
Covering(v, px, py) ==
    {i \in 0..8 : LET q == QuadAt(v, i)
                  IN q.x0 <= px /\ px < q.x1 /\ q.y0 <= py /\ py < q.y1}

\* The bounds leave room for the margins
RoomForMargins ==
    /\ el.width >= el.margins[1] + el.margins[2]
    /\ el.height >= el.margins[3] + el.margins[4]

\* C7: at bounds that leave room for the margins, the 36 vertices of a
\* loaded frame element are nine rectangles on the columns x, x+l, x+W-r,
\* x+W and the rows y, y+b, y+H-t, y+H; each cell of the outer rectangle
\* lies in exactly one of them, and the corner ones are l x b, r x b,
\* l x t and r x t.
C7_FrameQuadsTile ==
    (el.kind = "frame" /\ el.vertex_list # 0 /\ RoomForMargins) =>
        LET v == Vertices
            l == el.margins[1]
            r == el.margins[2]
            t == el.margins[3]
            b == el.margins[4]
            W == el.width
            H == el.height
        IN /\ Len(v) = 72 /\ batch[el.vertex_list].count = 36
           /\ \A i \in 0..8 :
                 /\ IsRect(v, i)
                 /\ {QuadAt(v, i).x0, QuadAt(v, i).x1}
                        \subseteq {el.x, el.x + l, el.x + W - r, el.x + W}
                 /\ {QuadAt(v, i).y0, QuadAt(v, i).y1}
                        \subseteq {el.y, el.y + b, el.y + H - t, el.y + H}
           /\ \A px \in (el.x - 1)..(el.x + W), py \in (el.y - 1)..(el.y + H) :
                 Cardinality(Covering(v, px, py)) =
                     IF px \in el.x..(el.x + W - 1) /\ py \in el.y..(el.y + H - 1)
                     THEN 1 ELSE 0
           /\ QuadAt(v, 0) = [x0 |-> el.x, y0 |-> el.y, x1 |-> el.x + l, y1 |-> el.y + b]
           /\ QuadAt(v, 2) = [x0 |-> el.x + W - r, y0 |-> el.y,
                              x1 |-> el.x + W, y1 |-> el.y + b]
           /\ QuadAt(v, 6) = [x0 |-> el.x, y0 |-> el.y + H - t,
                              x1 |-> el.x + l, y1 |-> el.y + H]
           /\ QuadAt(v, 8) = [x0 |-> el.x + W - r, y0 |-> el.y + H - t,
                              x1 |-> el.x + W, y1 |-> el.y + H]

\* A loaded frame element of unequal margins, moved off the origin and
\* resized to more than its margins
C7_Witness ==
    /\ el.kind = "frame" /\ el.vertex_list # 0
    /\ eres.op = "update"
    /\ el.margins[1] # el.margins[2] /\ el.margins[3] # el.margins[4]
    /\ el.x # 0 /\ el.y # 0 /\ el.width # el.height
    /\ el.width > el.margins[1] + el.margins[2]
    /\ el.height > el.margins[3] + el.margins[4]

\* C8, amended: on an element whose allocation unload has released, with
\* no _load since, a later unload fails with AttributeError; a later
\* update returns normally, and touches no allocation.
C8_UnloadTwiceFails ==
    /\ (eres.op = "unload" /\ ~eres.live) =>
          eres.out = Raise("AttributeError") /\ el.vertex_list = 0
    /\ (eres.op = "update" /\ ~eres.live) =>
          eres.out = None /\ el.vertex_list = 0

\* unload called on an element already unloaded and since updated
C8_Witness ==
    /\ eres.op = "unload" /\ ~eres.live
    /\ el.x # 0

\* C8 as stated: on an element whose allocation unload has released, a
\* later update or unload fails.
C8_MisuseFails ==
    (eres.op \in {"update", "unload"} /\ ~eres.live) => IsErr(eres.out)

\* The vertex lists of batch b not deleted
AllocsOf(b) == {i \in 1..Len(b) : ~b[i].deleted}

\* The vertex list element e holds
Held(e) == IF e.vertex_list = 0 THEN {} ELSE {e.vertex_list}

\* What C9 says of one call
C9_Call ==
    /\ el'.kind # "none" => AllocsOf(batch') = Held(el')
    /\ eres.op = "none" =>
          /\ eres'.op = "generate" => Held(el') # {} /\ Len(batch') = Len(batch) + 1
          /\ eres'.op = "update" =>
                Len(batch') = Len(batch) /\ AllocsOf(batch') = AllocsOf(batch)
          /\ (eres'.op = "_load" /\ Held(el) # {}) =>
                /\ eres'.out = Raise("AssertionError")
                /\ Len(batch') = Len(batch)
                /\ Held(el') = Held(el)
          /\ (eres'.op = "unload" /\ Held(el) # {}) =>
                Held(el') = {} /\ AllocsOf(batch') = {}

\* C9: a generated element holds a vertex list from its creation; the
\* batch's vertex lists not deleted are the one the element holds, none
\* once it is unloaded; update neither adds nor deletes one; _load on an
\* element that holds one fails its assertion and adds none.
C9_OneLiveAllocation == [][C9_Call]_vars

\* An element unloaded, loaded again and updated: the batch has issued two
\* vertex lists, the first deleted, the second the element's
C9_Witness ==
    /\ Len(batch) = 2 /\ batch[1].deleted /\ el.vertex_list = 2
    /\ eres.op = "update"

====
